---- MODULE Spec2Model ----
(***************************************************************************)
(* The ERP order dashboard of src/interactive_dashboard.py: load_data      *)
(* (schema normalisation), sidebar_filters (the filter engine) and the     *)
(* five chart transforms, as a state machine over data frames.             *)
(*                                                                         *)
(* Encoding.  A cell is <<>> (NaN / NaT / None) or <<v>> (the value v).    *)
(* A data frame is [cols |-> the column names it has, rows |-> a sequence  *)
(* of rows in index order]; a row maps every name of Fields to a cell, and *)
(* the cell of a column the frame does not have is always <<>>.  Reading a *)
(* column that is not in cols is a KeyError, modelled where it can happen. *)
(* A calendar date is [y, m, d]; a raw date cell holds the date as the     *)
(* sheet gives it (ISO text such as 2024-02-30), valid or not.             *)
(* TLA+ strings are ASCII: the Chinese literals of the source are written  *)
(* in pinyin, province keys with their suffix (Sheng = 省, Zizhiqu = 自治  *)
(* 区): "Guangdong Sheng" is 广东省, "Huanan" is 华南, "Qita" is 其他.     *)
(***************************************************************************)
EXTENDS Integers, Sequences, FiniteSets, TLC

VARIABLES pc, raw, df, sel, filtered_df, chart, outcome

vars == <<pc, raw, df, sel, filtered_df, chart, outcome>>

---------------------------------------------------------------------------
(* Bounds of the model. *)

\* The most rows of a source table in the dashboard specification.
MaxRows == 3

\* The most rows of a source table in the trend specification, and the
\* number of calendar months its rows are spread over.
MaxTrendRows == 4

\* The most categories of a source table in the ranking specification.
MaxCategories == 13

---------------------------------------------------------------------------
(* Cells, rows, frames. *)

NaN == <<>>

None == <<>>

Some(v) == <<v>>

isna(c) == c = NaN

\* Series.fillna(other): the cell itself unless it is missing.
fillna(c, other) == IF isna(c) THEN other ELSE c

Date(y, m, d) == [y |-> y, m |-> m, d |-> d]

RawColumns ==
    {"region", "province",
     "payment_date", "order_date", "create_time", "created_at", "date",
     "paid_amount", "product_amount", "amount", "total_amount",
     "quantity", "unit_price", "product_name", "category"}

DerivedColumns ==
    {"_primary_date", "year", "month", "quarter", "_amount", "_quantity"}

Fields == RawColumns \cup DerivedColumns

\* The set of the elements of a sequence.
Range(s) == {s[i] : i \in 1..Len(s)}

\* df[c] = series: adds the column or overwrites it.  The series f gives the
\* new cell of each row (a function on the rows of d).
SetCol(d, c, f) ==
    [cols |-> d.cols \cup {c},
     rows |-> [i \in 1..Len(d.rows) |-> [d.rows[i] EXCEPT ![c] = f[d.rows[i]]]]]

\* df[mask]: the rows whose mask is true, in index order, same columns.
BoolIndex(d, mask) ==
    [cols |-> d.cols, rows |-> SelectSeq(d.rows, LAMBDA r : mask[r])]

\* Series.dropna().unique() of column c, as a set of values.
UniqueValues(d, c) == {r[c][1] : r \in {x \in Range(d.rows) : ~isna(x[c])}}

---------------------------------------------------------------------------
(* load_data: region. *)

REGION_MAPPING ==
    (  "Beijing" :> "Huabei" @@ "Tianjin" :> "Huabei"
    @@ "Hebei Sheng" :> "Huabei" @@ "Shanxi Sheng" :> "Huabei"
    @@ "Neimenggu Zizhiqu" :> "Huabei"
    @@ "Liaoning Sheng" :> "Dongbei" @@ "Jilin Sheng" :> "Dongbei"
    @@ "Heilongjiang Sheng" :> "Dongbei"
    @@ "Shanghai" :> "Huadong" @@ "Jiangsu Sheng" :> "Huadong"
    @@ "Zhejiang Sheng" :> "Huadong" @@ "Anhui Sheng" :> "Huadong"
    @@ "Fujian Sheng" :> "Huadong" @@ "Jiangxi Sheng" :> "Huadong"
    @@ "Shandong Sheng" :> "Huadong"
    @@ "Henan Sheng" :> "Huazhong" @@ "Hubei Sheng" :> "Huazhong"
    @@ "Hunan Sheng" :> "Huazhong"
    @@ "Guangdong Sheng" :> "Huanan" @@ "Guangxi Zhuangzu Zizhiqu" :> "Huanan"
    @@ "Hainan Sheng" :> "Huanan"
    @@ "Chongqing" :> "Xinan" @@ "Sichuan Sheng" :> "Xinan"
    @@ "Guizhou Sheng" :> "Xinan" @@ "Yunnan Sheng" :> "Xinan"
    @@ "Xizang Zizhiqu" :> "Xinan"
    @@ "Shaanxi Sheng" :> "Xibei" @@ "Gansu Sheng" :> "Xibei"
    @@ "Qinghai Sheng" :> "Xibei" @@ "Ningxia Huizu Zizhiqu" :> "Xibei"
    @@ "Xinjiang Weiwuer Zizhiqu" :> "Xibei" )

\* The fill value of line 43.
OTHER_REGION == "Qita"

\* Series.map(REGION_MAPPING) on one cell: a key that is missing maps to NaN.
MapRegion(c) ==
    IF isna(c) THEN NaN
    ELSE IF c[1] \in DOMAIN REGION_MAPPING THEN Some(REGION_MAPPING[c[1]])
    ELSE NaN

\* Lines 38-42: the region column is derived or completed only inside the
\* test for a province column.
RegionFromProvince(d) ==
    IF "province" \in d.cols
    THEN IF "region" \in d.cols
         THEN SetCol(d, "region",
                     [r \in Range(d.rows) |->
                         fillna(r["region"], MapRegion(r["province"]))])
         ELSE SetCol(d, "region",
                     [r \in Range(d.rows) |-> MapRegion(r["province"])])
    ELSE d

\* Line 43 reads df['region'] whether or not lines 38-42 made the column.
FillRegionRaises(d) == "region" \notin d.cols

FillRegion(d) ==
    SetCol(d, "region",
           [r \in Range(d.rows) |-> fillna(r["region"], Some(OTHER_REGION))])

---------------------------------------------------------------------------
(* load_data: dates. *)

date_candidates ==
    <<"payment_date", "order_date", "create_time", "created_at", "date">>

IsLeap(y) == (y % 4 = 0 /\ y % 100 # 0) \/ y % 400 = 0

DaysInMonth(y, m) ==
    IF m = 2 THEN (IF IsLeap(y) THEN 29 ELSE 28)
    ELSE IF m \in {4, 6, 9, 11} THEN 30 ELSE 31

\* pd.to_datetime(errors='coerce') on one cell: the date when the text is a
\* calendar date, NaT when it is missing or is no date.
to_datetime(c) ==
    IF isna(c) THEN NaN
    ELSE IF /\ c[1].m \in 1..12
            /\ c[1].d \in 1..DaysInMonth(c[1].y, c[1].m)
         THEN c
         ELSE NaN

\* next((c for c in candidates if c in df.columns), None)
FirstPresent(candidates, cols) ==
    LET idx == {i \in 1..Len(candidates) : candidates[i] \in cols}
    IN  IF idx = {} THEN None
        ELSE Some(candidates[CHOOSE i \in idx : \A j \in idx : i <= j])

\* Lines 47-49: every candidate column that exists is parsed in place.
RECURSIVE ParseDates(_, _)
ParseDates(d, i) ==
    IF i > Len(date_candidates) THEN d
    ELSE LET c == date_candidates[i]
         IN  ParseDates(IF c \in d.cols
                        THEN SetCol(d, c, [r \in Range(d.rows) |-> to_datetime(r[c])])
                        ELSE d,
                        i + 1)

\* A primary date chosen by whether a column has a value that parsed.
PrimaryDateFirstParsed(d) ==
    FirstPresent(date_candidates,
                 {c \in d.cols : \E r \in Range(d.rows) : ~isna(r[c])})

\* Line 52.
primary_date(d) == FirstPresent(date_candidates, d.cols)

dt_year(c) == IF isna(c) THEN NaN ELSE Some(c[1].y)

dt_month(c) == IF isna(c) THEN NaN ELSE Some(c[1].m)

dt_quarter(c) == IF isna(c) THEN NaN ELSE Some(((c[1].m - 1) \div 3) + 1)

\* Lines 53-57.
DeriveDates(d) ==
    LET p == primary_date(d)
    IN  IF p = None THEN d
        ELSE LET d1 == SetCol(d, "_primary_date",
                              [r \in Range(d.rows) |-> r[p[1]]])
                 d2 == SetCol(d1, "year",
                              [r \in Range(d1.rows) |-> dt_year(r["_primary_date"])])
                 d3 == SetCol(d2, "month",
                              [r \in Range(d2.rows) |-> dt_month(r["_primary_date"])])
             IN  SetCol(d3, "quarter",
                        [r \in Range(d3.rows) |-> dt_quarter(r["_primary_date"])])

---------------------------------------------------------------------------
(* load_data: amount and quantity. *)

amount_candidates ==
    <<"paid_amount", "product_amount", "amount", "total_amount">>

\* Line 61.
amount_col(d) == FirstPresent(amount_candidates, d.cols)

\* Series * Series on one row: NaN when either side is.
Mul(a, b) == IF isna(a) \/ isna(b) THEN NaN ELSE Some(a[1] * b[1])

\* An amount that is the product whenever quantity and unit price exist,
\* and an amount column only otherwise.
DeriveAmountProductFirst(d) ==
    LET a == amount_col(d)
    IN  IF {"quantity", "unit_price"} \subseteq d.cols
        THEN SetCol(d, "_amount",
                    [r \in Range(d.rows) |-> Mul(r["quantity"], r["unit_price"])])
        ELSE IF a # None
             THEN SetCol(d, "_amount", [r \in Range(d.rows) |-> r[a[1]]])
             ELSE d

\* Lines 60-65.
DeriveAmount(d) ==
    LET a == amount_col(d)
    IN  IF a = None /\ {"quantity", "unit_price"} \subseteq d.cols
        THEN SetCol(d, "_amount",
                    [r \in Range(d.rows) |-> Mul(r["quantity"], r["unit_price"])])
        ELSE IF a # None
             THEN SetCol(d, "_amount", [r \in Range(d.rows) |-> r[a[1]]])
             ELSE d

\* Lines 68-69.
DeriveQuantity(d) ==
    IF "quantity" \in d.cols
    THEN SetCol(d, "_quantity", [r \in Range(d.rows) |-> r["quantity"]])
    ELSE d

---------------------------------------------------------------------------
(* load_data as a whole: Some(frame), or None after the except clause. *)

load_data(table) ==
    LET d1 == RegionFromProvince(table)
    IN  IF FillRegionRaises(d1) THEN None
        ELSE Some(DeriveQuantity(DeriveAmount(DeriveDates(
                     ParseDates(FillRegion(d1), 1)))))

---------------------------------------------------------------------------
(* sidebar_filters.  A multiselect value is Some(set of the chosen         *)
(* options); a dimension without a widget has None (lines 89, 109, 111).   *)

\* Line 102: more product options than this and no product widget is shown.
MAX_PRODUCT_OPTIONS == 50

\* Lines 81-89: the options of the year widget, None without a year column.
YearOptions(d) ==
    IF "year" \in d.cols THEN Some(UniqueValues(d, "year")) ELSE None

\* Line 92: df['region'].unique().
RegionOptions(d) == Some(UniqueValues(d, "region"))

\* Lines 100-111.
ProductOptions(d) ==
    IF "product_name" \in d.cols
    THEN LET products == UniqueValues(d, "product_name")
         IN  IF Cardinality(products) <= MAX_PRODUCT_OPTIONS
             THEN Some(products) ELSE None
    ELSE None

\* What a multiselect over the options can return: any subset of them.
Choices(options) ==
    IF options = None THEN {None} ELSE {Some(S) : S \in SUBSET options[1]}

Selections(d) ==
    {[years |-> y, regions |-> r, products |-> p] :
        y \in Choices(YearOptions(d)),
        r \in Choices(RegionOptions(d)),
        p \in Choices(ProductOptions(d))}

\* `if selected:` is false for None and for the empty list.
Truthy(s) == s # None /\ s[1] # {}

\* Series.isin(values) on one cell; the values hold no NaN (dropna, line 82).
isin(c, values) == ~isna(c) /\ c[1] \in values

\* A year filter that also keeps the rows without a year.
FilterYearsKeepNa(d, s) ==
    IF Truthy(s)
    THEN BoolIndex(d, [r \in Range(d.rows) |->
                          isna(r["year"]) \/ isin(r["year"], s[1])])
    ELSE d

\* Lines 114-115.
FilterYears(d, s) ==
    IF Truthy(s)
    THEN BoolIndex(d, [r \in Range(d.rows) |-> isin(r["year"], s[1])])
    ELSE d

\* A region filter that reads the empty selection as "exclude everything".
FilterRegionsStrict(d, s) ==
    IF s # None
    THEN BoolIndex(d, [r \in Range(d.rows) |-> isin(r["region"], s[1])])
    ELSE d

\* Lines 116-117.
FilterRegions(d, s) ==
    IF Truthy(s)
    THEN BoolIndex(d, [r \in Range(d.rows) |-> isin(r["region"], s[1])])
    ELSE d

\* Lines 118-119.
FilterProducts(d, s) ==
    IF Truthy(s)
    THEN BoolIndex(d, [r \in Range(d.rows) |-> isin(r["product_name"], s[1])])
    ELSE d

\* DataFrame.copy(): a new frame with the columns and rows of d.
copy(d) == [cols |-> d.cols, rows |-> d.rows]

\* Lines 113-121: the frame sidebar_filters returns.
sidebar_filters(d, s) ==
    FilterProducts(FilterRegions(FilterYears(copy(d), s.years), s.regions),
                   s.products)

\* The filter that lost line 113's copy and narrows its argument in place.
SidebarFiltersInPlace(d, s) ==
    [df |-> sidebar_filters(d, s), filtered_df |-> sidebar_filters(d, s)]

\* Lines 113-121 as an effect on the two frames: the argument df is copied
\* first and every later step rebinds filtered_df to a new frame, so df is
\* left as it was.
SidebarFiltersEffect(d, s) ==
    [df |-> d, filtered_df |-> sidebar_filters(d, s)]

---------------------------------------------------------------------------
(* Aggregation: groupby, sum, sort_values, head.                           *)

\* Series.sum() of column c over a sequence of rows: NaN cells are skipped
\* and the sum of nothing is 0.
RECURSIVE SumCol(_, _)
SumCol(rows, c) ==
    IF rows = <<>> THEN 0
    ELSE (IF isna(Head(rows)[c]) THEN 0 ELSE Head(rows)[c][1])
         + SumCol(Tail(rows), c)

\* df.groupby(key)[value].sum(): one [label, value] per distinct key that
\* is not NaN (groupby drops the rows whose key is NaN).
GroupSums(d, key, value) ==
    {[label |-> k,
      value |-> SumCol(SelectSeq(d.rows, LAMBDA r : r[key] = Some(k)), value)] :
        k \in UniqueValues(d, key)}

\* sort_values(value, ascending=False) of a grouped table: the groups by
\* descending value.  The default sort kind is not stable, so groups of
\* equal value may come in any order: the set of the possible results.
\* Any group of the largest value comes first, then the rest likewise.
RECURSIVE SortValuesDesc(_)
SortValuesDesc(groups) ==
    IF groups = {} THEN {<<>>}
    ELSE UNION {{<<g>> \o s : s \in SortValuesDesc(groups \ {g})} :
                   g \in {x \in groups : \A y \in groups : x.value >= y.value}}

\* Truncation that keeps the end of the sorted table: DataFrame.tail(n).
HeadKeepsLast(s, n) ==
    SubSeq(s, (IF n < Len(s) THEN Len(s) - n ELSE 0) + 1, Len(s))

\* DataFrame.head(n): the first n rows, all of them when there are fewer,
\* and all but the last -n when n is negative.
head(s, n) ==
    SubSeq(s, 1, IF n >= 0 THEN (IF n < Len(s) THEN n ELSE Len(s))
                 ELSE (IF Len(s) + n > 0 THEN Len(s) + n ELSE 0))

Labels(s) == [i \in DOMAIN s |-> s[i].label]

Values(s) == [i \in DOMAIN s |-> s[i].value]

---------------------------------------------------------------------------
(* The chart transforms.  Each returns the set of the outcomes a call can  *)
(* have: a figure with what it draws, None after an st.warning             *)
(* ("insufficient"), or an exception that leaves the function ("raise").   *)

Blank ==
    [kind |-> "not called", exc |-> "", value_col |-> "", group_col |-> "",
     n |-> 0, labels |-> <<>>, values |-> <<>>, grid |-> <<>>,
     smooth |-> FALSE, degree |-> 0]

Insufficient == [Blank EXCEPT !.kind = "insufficient"]

Raise(e, vcol) == [Blank EXCEPT !.kind = "raise", !.exc = e, !.value_col = vcol]

\* Lines 129, 182, 328: the volume charts read quantity first.
QuantityFirst(d) == IF "_quantity" \in d.cols THEN "_quantity" ELSE "_amount"

\* The temporal charts reading quantity first, like the volume charts.
AmountFirstSwapped(d) ==
    IF "_quantity" \in d.cols THEN "_quantity" ELSE "_amount"

\* Lines 223, 277: the temporal charts read amount first.
AmountFirst(d) == IF "_amount" \in d.cols THEN "_amount" ELSE "_quantity"

\* Lines 123-174.  The named aggregation of a column the frame does not have
\* is a KeyError; max(quantities) of no regions (line 157) a ValueError.
plot_regional_gradient_bars(d) ==
    LET qty_col == QuantityFirst(d)
    IN  IF qty_col \notin d.cols THEN {Raise("KeyError", qty_col)}
        ELSE {IF region_stats = <<>> THEN Raise("ValueError", qty_col)
              ELSE [Blank EXCEPT !.kind = "figure", !.value_col = qty_col,
                                 !.group_col = "region",
                                 !.labels = Labels(region_stats),
                                 !.values = Values(region_stats)] :
                 region_stats \in SortValuesDesc(GroupSums(d, "region", qty_col))}

\* Lines 176-211.  No products draws an empty bar chart and returns it.
plot_top_products(d, n) ==
    LET value_col == QuantityFirst(d)
        product_col == IF "product_name" \in d.cols THEN "product_name"
                       ELSE "category"
    IN  IF product_col \notin d.cols THEN {Insufficient}
        ELSE IF value_col \notin d.cols THEN {Raise("KeyError", value_col)}
        ELSE {[Blank EXCEPT !.kind = "figure", !.value_col = value_col,
                            !.group_col = product_col, !.n = n,
                            !.labels = Labels(head(sorted, n)),
                            !.values = Values(head(sorted, n))] :
                 sorted \in SortValuesDesc(GroupSums(d, product_col, value_col))}

\* The months of a frame as numbers, so that they sort: 12 * year + month.
MonthNo(c) == 12 * c[1].y + c[1].m

\* Lines 226-229: the rows with a date, bucketed by calendar month, in month
\* order.  The work is done on df_month, a copy.
MonthlyBuckets(d, value_col) ==
    LET df_month == copy(BoolIndex(d, [r \in Range(d.rows) |->
                                          ~isna(r["_primary_date"])]))
        months == {MonthNo(r["_primary_date"]) : r \in Range(df_month.rows)}
        bucket(k) ==
            [label |-> k,
             value |-> SumCol(SelectSeq(df_month.rows,
                                        LAMBDA r : MonthNo(r["_primary_date"]) = k),
                              value_col)]
        RECURSIVE asc(_)
        asc(S) == IF S = {} THEN <<>>
                  ELSE LET k == CHOOSE x \in S : \A y \in S : x <= y
                       IN  <<bucket(k)>> \o asc(S \ {k})
    IN  asc(months)

\* Line 239: a spline is fitted to more than this many buckets.
SMOOTH_ABOVE == 3

\* Line 241: the highest degree of the spline.
MAX_DEGREE == 3

\* Line 231: fewer buckets than this is too few.
MIN_BUCKETS == 2

\* The trend chart fitting the spline from three buckets on (>= for >).
PlotMonthlyTrendSmoothFromThree(d) ==
    IF "_primary_date" \notin d.cols THEN {Insufficient}
    ELSE LET value_col == AmountFirst(d)
         IN  IF value_col \notin d.cols THEN {Raise("KeyError", value_col)}
             ELSE LET monthly == MonthlyBuckets(d, value_col)
                      n == Len(monthly)
                  IN  IF n < MIN_BUCKETS THEN {Insufficient}
                      ELSE {[Blank EXCEPT
                               !.kind = "figure", !.value_col = value_col,
                               !.group_col = "year_month",
                               !.labels = Labels(monthly),
                               !.values = Values(monthly),
                               !.smooth = (n >= SMOOTH_ABOVE),
                               !.degree = IF n >= SMOOTH_ABOVE
                                          THEN (IF n - 1 < MAX_DEGREE THEN n - 1
                                                ELSE MAX_DEGREE)
                                          ELSE 1]}

\* Lines 213-265.
plot_monthly_trend(d) ==
    IF "_primary_date" \notin d.cols THEN {Insufficient}
    ELSE LET value_col == AmountFirst(d)
         IN  IF value_col \notin d.cols THEN {Raise("KeyError", value_col)}
             ELSE LET monthly == MonthlyBuckets(d, value_col)
                      n == Len(monthly)
                  IN  IF n < MIN_BUCKETS THEN {Insufficient}
                      ELSE {[Blank EXCEPT
                               !.kind = "figure", !.value_col = value_col,
                               !.group_col = "year_month",
                               !.labels = Labels(monthly),
                               !.values = Values(monthly),
                               !.smooth = (n > SMOOTH_ABOVE),
                               !.degree = IF n > SMOOTH_ABOVE
                                          THEN (IF n - 1 < MAX_DEGREE THEN n - 1
                                                ELSE MAX_DEGREE)
                                          ELSE 1]}

\* Line 287: the quarters of a year.
QUARTERS == 4

\* The values of one year with the quarters that have no rows left out.
QuarterValuesPresentOnly(d, year, value_col) ==
    LET has(q) == \E r \in Range(d.rows) :
                     r["year"] = Some(year) /\ r["quarter"] = Some(q)
        RECURSIVE from(_)
        from(q) ==
            IF q > 4 THEN <<>>
            ELSE (IF has(q)
                  THEN <<SumCol(SelectSeq(d.rows,
                                  LAMBDA r : r["year"] = Some(year)
                                             /\ r["quarter"] = Some(q)),
                                value_col)>>
                  ELSE <<>>) \o from(q + 1)
    IN  from(1)

\* Lines 292-295: the four values of one year; a quarter without a group is 0.
QuarterValues(d, year, value_col) ==
    [q \in 1..QUARTERS |->
        LET rows == SelectSeq(d.rows,
                              LAMBDA r : r["year"] = Some(year) /\ r["quarter"] = Some(q))
        IN  IF Len(rows) > 0 THEN SumCol(rows, value_col) ELSE 0]

\* The years of a set in ascending order (sorted, line 281).
RECURSIVE SortedInts(_)
SortedInts(S) ==
    IF S = {} THEN <<>>
    ELSE LET k == CHOOSE x \in S : \A y \in S : x <= y
         IN  <<k>> \o SortedInts(S \ {k})

\* Lines 267-320.  groupby(['year', 'quarter']) drops the rows without a
\* year or a quarter.
plot_quarterly_comparison(d) ==
    IF "quarter" \notin d.cols \/ "year" \notin d.cols THEN {Insufficient}
    ELSE LET value_col == AmountFirst(d)
         IN  IF value_col \notin d.cols THEN {Raise("KeyError", value_col)}
             ELSE LET grouped == BoolIndex(d, [r \in Range(d.rows) |->
                                     ~isna(r["year"]) /\ ~isna(r["quarter"])])
                      years == SortedInts(UniqueValues(grouped, "year"))
                  IN  IF Len(years) = 0 THEN {Insufficient}
                      ELSE {[Blank EXCEPT
                               !.kind = "figure", !.value_col = value_col,
                               !.group_col = "year",
                               !.labels = years,
                               !.grid = [i \in DOMAIN years |->
                                           QuarterValues(grouped, years[i], value_col)]]}

\* Line 333: the rose chart keeps this many categories.
ROSE_TOP == 12

\* Lines 322-358.
plot_rose_chart(d) ==
    LET value_col == QuantityFirst(d)
        category_col == IF "category" \in d.cols THEN "category" ELSE "region"
    IN  IF value_col \notin d.cols THEN {Raise("KeyError", value_col)}
        ELSE {IF agg = <<>> THEN Insufficient
              ELSE [Blank EXCEPT !.kind = "figure", !.value_col = value_col,
                                 !.group_col = category_col,
                                 !.labels = Labels(agg), !.values = Values(agg)] :
                 agg \in {head(x, ROSE_TOP) :
                            x \in SortValuesDesc(GroupSums(d, category_col, value_col))}}

---------------------------------------------------------------------------
(* Source tables: what pd.read_excel returns.  The rows are drawn from a   *)
(* pool of three orders whose cells cover a mapped, an unmapped and a      *)
(* missing province, valid, invalid and missing dates that differ from one *)
(* date column to the next, and amounts that differ from one amount column *)
(* to the next.  "Lianmao Weiyi" is 连帽卫衣, "Yurongfu" is 羽绒服,         *)
(* "Shangzhuang" is 上装, "Xiazhuang" is 下装, "Taiwan Sheng" is 台湾省.    *)

Row1 ==
    [region |-> NaN, province |-> Some("Guangdong Sheng"),
     payment_date |-> Some(Date(2023, 4, 1)),
     order_date |-> Some(Date(2023, 3, 31)),
     create_time |-> Some(Date(2023, 3, 30)),
     created_at |-> Some(Date(2023, 3, 29)),
     date |-> Some(Date(2023, 3, 28)),
     paid_amount |-> Some(65), product_amount |-> Some(60),
     amount |-> Some(61), total_amount |-> Some(62),
     quantity |-> Some(2), unit_price |-> Some(30),
     product_name |-> Some("Lianmao Weiyi"), category |-> Some("Shangzhuang")]

Row2 ==
    [region |-> Some("Huadong"), province |-> Some("Taiwan Sheng"),
     payment_date |-> Some(Date(2024, 2, 30)),
     order_date |-> Some(Date(2024, 2, 29)),
     create_time |-> Some(Date(2024, 2, 28)),
     created_at |-> NaN,
     date |-> Some(Date(2024, 8, 15)),
     paid_amount |-> Some(50), product_amount |-> NaN,
     amount |-> Some(51), total_amount |-> Some(52),
     quantity |-> Some(1), unit_price |-> NaN,
     product_name |-> NaN, category |-> Some("Xiazhuang")]

Row3 ==
    [region |-> NaN, province |-> NaN,
     payment_date |-> Some(Date(2024, 11, 6)),
     order_date |-> NaN,
     create_time |-> Some(Date(2023, 2, 29)),
     created_at |-> Some(Date(2024, 11, 4)),
     date |-> NaN,
     paid_amount |-> Some(40), product_amount |-> Some(45),
     amount |-> NaN, total_amount |-> Some(42),
     quantity |-> Some(3), unit_price |-> Some(15),
     product_name |-> Some("Yurongfu"), category |-> Some("Shangzhuang")]

RowPool == <<Row1, Row2, Row3>>

\* A pool row as a row of a table with the columns cols.
TableRow(r, cols) ==
    [c \in Fields |-> IF c \in cols /\ c \in DOMAIN r THEN r[c] ELSE NaN]

\* The sequences over 1..Len(RowPool) of length 0..n.
IndexSeqs(n) == UNION {[1..k -> 1..Len(RowPool)] : k \in 0..n}

Table(cols, ix) ==
    [cols |-> cols,
     rows |-> [i \in 1..Len(ix) |-> TableRow(RowPool[ix[i]], cols)]]

\* The dashboard specification varies the columns the pipeline reads after
\* the load, one of each kind, and every sequence of at most MaxRows rows.
PipelineColumns ==
    {"province", "payment_date", "paid_amount", "quantity",
     "product_name", "category"}

PipelineTables ==
    {Table(cols, ix) : cols \in SUBSET PipelineColumns, ix \in IndexSeqs(MaxRows)}

\* The load specification varies every subset of the optional columns, on
\* the empty table, on the row whose first date column does not parse and
\* on the table of the three pool rows.
LoadTables ==
    {Table(cols, ix) : cols \in SUBSET RawColumns, ix \in {<<>>, <<2>>, <<1, 2, 3>>}}

\* The trend specification: orders of consecutive calendar months from
\* 2023-11 on (kind k is the k-th month; kind 0 has no payment date), with
\* amounts and quantities that differ from one month to the next.
TrendRow(k) ==
    [province |-> Some("Guangdong Sheng"),
     payment_date |-> IF k = 0 THEN NaN
                      ELSE Some(Date(2023 + ((9 + k) \div 12), ((9 + k) % 12) + 1, 15)),
     paid_amount |-> Some(100 + 10 * k),
     quantity |-> Some(k + 1)]

TrendColumns == {"province", "payment_date", "paid_amount", "quantity"}

\* Every sequence of at most MaxTrendRows such orders.
TrendTables ==
    {[cols |-> TrendColumns,
      rows |-> [i \in 1..Len(ks) |-> TableRow(TrendRow(ks[i]), TrendColumns)]] :
        ks \in UNION {[1..n -> 0..MaxTrendRows] : n \in 0..MaxTrendRows}}

\* The ranking specification: one order per category, the first k of the
\* names below, the quantities following one of four patterns (ascending,
\* descending, equal in pairs, scattered), the products cycling over six
\* names of the generator's catalogue ("Xiushen Niuzaiku" is 修身牛仔裤,
\* "Xiuxian Chenshan" 休闲衬衫, "Yundongku" 运动裤, "Zhenzhishan" 针织衫),
\* and from three categories on a second order of the second category.
CategoryNames ==
    <<"C01", "C02", "C03", "C04", "C05", "C06", "C07", "C08",
      "C09", "C10", "C11", "C12", "C13", "C14", "C15", "C16">>

ProductNames ==
    <<"Lianmao Weiyi", "Yurongfu", "Xiushen Niuzaiku", "Xiuxian Chenshan",
      "Yundongku", "Zhenzhishan">>

RankPatterns == 1..4

RankValue(p, i) ==
    IF p = 1 THEN i
    ELSE IF p = 2 THEN 20 - i
    ELSE IF p = 3 THEN (i \div 2) + 1
    ELSE ((7 * i) % 15) + 1

RankRow(p, i, k) ==
    IF i <= k
    THEN [province |-> Some("Guangdong Sheng"),
          category |-> Some(CategoryNames[i]),
          product_name |-> Some(ProductNames[((i - 1) % Len(ProductNames)) + 1]),
          quantity |-> Some(RankValue(p, i))]
    ELSE [province |-> Some("Guangdong Sheng"),
          category |-> Some(CategoryNames[2]),
          product_name |-> Some(ProductNames[1]),
          quantity |-> Some(9)]

RankColumnSets ==
    {{"province", "category", "quantity"},
     {"province", "category", "quantity", "product_name"},
     {"province", "quantity", "product_name"}}

RankTables ==
    {[cols |-> cols,
      rows |-> [i \in 1..(IF k >= 3 THEN k + 1 ELSE k) |->
                   TableRow(RankRow(p, i, k), cols)]] :
        cols \in RankColumnSets, p \in RankPatterns, k \in 0..MaxCategories}

---------------------------------------------------------------------------
(* State.                                                                  *)
(*   pc           where main() is: "start", "loaded", "failed" (st.stop    *)
(*                after a failed load) or "filtered"                       *)
(*   raw          the source table                                         *)
(*   df           what load_data returned: None or Some(frame)             *)
(*   sel          the three multiselect values of sidebar_filters          *)
(*   filtered_df  what sidebar_filters returned                            *)
(*   chart        the chart transform called last on filtered_df           *)
(*   outcome      what that call did                                       *)

NoSelection == [years |-> None, regions |-> None, products |-> None]

NoOutcome == Blank

InitWith(tables) ==
    /\ pc = "start"
    /\ raw \in tables
    /\ df = None
    /\ sel = NoSelection
    /\ filtered_df = None
    /\ chart = "none"
    /\ outcome = NoOutcome

Init == InitWith(PipelineTables)

InitLoad == InitWith(LoadTables)

\* main(), lines 365-369: load, and stop when the load failed.
LoadData ==
    /\ pc = "start"
    /\ df' = load_data(raw)
    /\ pc' = IF df' = None THEN "failed" ELSE "loaded"
    /\ UNCHANGED <<raw, sel, filtered_df, chart, outcome>>

\* main(), line 372: the widgets hold some selection and the filter runs.
SidebarFilters ==
    /\ pc = "loaded"
    /\ \E s \in Selections(df[1]) :
          LET e == SidebarFiltersEffect(df[1], s)
          IN  /\ sel' = s
              /\ df' = Some(e.df)
              /\ filtered_df' = Some(e.filtered_df)
    /\ pc' = "filtered"
    /\ UNCHANGED <<raw, chart, outcome>>

\* The values the slider of line 408 can hold, st.slider(.., 5, 50, 10, 5):
\* the multiples of 5 from 5 to 50.
TopNChoices == {n \in 5..50 : n % 5 = 0}

\* main() got past the chart drawn last: a chart that raises ends the run
\* and the charts after it are not called.
Returned == outcome.kind # "raise"

\* Lines 389-437: the chart transforms, each a call on the filtered view,
\* in the order of the tabs.  They aggregate with groupby and, in the trend
\* chart, work on a copy (lines 226-227): no call assigns to its argument.
\* The table of lines 399-404 aggregates what the regional chart has
\* aggregated and raises only where the chart has raised.
PlotRegionalGradientBars ==
    /\ pc = "filtered"
    /\ chart = "none"
    /\ chart' = "regional"
    /\ outcome' \in plot_regional_gradient_bars(filtered_df[1])
    /\ UNCHANGED <<pc, raw, df, sel, filtered_df>>

PlotTopProducts ==
    /\ pc = "filtered"
    /\ chart = "regional" /\ Returned
    /\ chart' = "top_products"
    /\ \E n \in TopNChoices : outcome' \in plot_top_products(filtered_df[1], n)
    /\ UNCHANGED <<pc, raw, df, sel, filtered_df>>

PlotMonthlyTrend ==
    /\ pc = "filtered"
    /\ chart = "top_products" /\ Returned
    /\ chart' = "monthly"
    /\ outcome' \in plot_monthly_trend(filtered_df[1])
    /\ UNCHANGED <<pc, raw, df, sel, filtered_df>>

PlotQuarterlyComparison ==
    /\ pc = "filtered"
    /\ chart = "monthly" /\ Returned
    /\ chart' = "quarterly"
    /\ outcome' \in plot_quarterly_comparison(filtered_df[1])
    /\ UNCHANGED <<pc, raw, df, sel, filtered_df>>

PlotRoseChart ==
    /\ pc = "filtered"
    /\ chart = "quarterly" /\ Returned
    /\ chart' = "rose"
    /\ outcome' \in plot_rose_chart(filtered_df[1])
    /\ UNCHANGED <<pc, raw, df, sel, filtered_df>>

\* A widget changes and Streamlit runs main() again: load_data is served
\* from st.cache_data (line 21) and the filter and the charts start over.
Rerun ==
    /\ pc = "filtered"
    /\ pc' = "loaded"
    /\ sel' = NoSelection
    /\ filtered_df' = None
    /\ chart' = "none"
    /\ outcome' = NoOutcome
    /\ UNCHANGED <<raw, df>>

Next ==
    \/ LoadData
    \/ SidebarFilters
    \/ PlotRegionalGradientBars
    \/ PlotTopProducts
    \/ PlotMonthlyTrend
    \/ PlotQuarterlyComparison
    \/ PlotRoseChart
    \/ Rerun

\* The dashboard: load, filter, charts, rerun.
Spec == Init /\ [][Next]_vars

InitTrend == InitWith(TrendTables)

\* The dashboard on tables of up to MaxTrendRows monthly buckets.
SpecTrend == InitTrend /\ [][Next]_vars

InitRank == InitWith(RankTables)

\* The dashboard on tables of up to MaxCategories categories.
SpecRank == InitRank /\ [][Next]_vars

NextLoad == LoadData

\* The normaliser alone, on every subset of the optional columns.
SpecLoad == InitLoad /\ [][NextLoad]_vars

---------------------------------------------------------------------------
(* Properties. *)

Dimensions == {"years", "regions", "products"}

\* The column a dimension filters on.
DimColumn(D) ==
    CASE D = "years" -> "year"
      [] D = "regions" -> "region"
      [] D = "products" -> "product_name"

\* The options of a dimension's widget: every observed value, or None.
DimOptions(d, D) ==
    CASE D = "years" -> YearOptions(d)
      [] D = "regions" -> RegionOptions(d)
      [] D = "products" -> ProductOptions(d)

\* The view the current selection gives with dimension D left empty.
OpenView(D) == sidebar_filters(df[1], [sel EXCEPT ![D] = Some({})])

\* Dimension D is selected in full in the current state.
FullySelected(D) ==
    /\ pc = "filtered"
    /\ sel[D] # None
    /\ sel[D] = DimOptions(df[1], D)

\* C1 as stated: the full selection of a dimension returns the rows the empty
\* selection returns, the other two selections being the same.
C1_NoRestrictionEquivalence ==
    \A D \in Dimensions : FullySelected(D) => filtered_df[1] = OpenView(D)

\* C1: the full selection of a dimension returns the rows of the empty
\* selection whose value in that dimension is present, in the same order
\* (all of them when the dimension has no observed value at all, the full
\* set then being the empty one); for the region, which is never absent
\* after the load, the two views are the same.
C1_FullSelectionKeepsPresentRows ==
    \A D \in Dimensions :
        FullySelected(D) =>
            /\ filtered_df[1] =
                  IF sel[D][1] = {} THEN OpenView(D)
                  ELSE BoolIndex(OpenView(D),
                                 [r \in Range(OpenView(D).rows) |->
                                     ~isna(r[DimColumn(D)])])
            /\ D = "regions" => filtered_df[1] = OpenView(D)

\* A dimension is selected in full and a row that the empty selection keeps
\* has no value in it.
C1_Witness ==
    \E D \in Dimensions :
        /\ FullySelected(D)
        /\ sel[D][1] # {}
        /\ Len(filtered_df[1].rows) < Len(OpenView(D).rows)

\* The view has a value field.
HasValueField(d) == "_quantity" \in d.cols \/ "_amount" \in d.cols

\* C2 as stated: on a view with zero rows every chart transform returns the
\* insufficient-data outcome.  The views without any value field are left
\* out here: what the charts do on those is C7's.
C2_EmptyViewIsInsufficient ==
    ( /\ pc = "filtered"
      /\ chart # "none"
      /\ filtered_df[1].rows = <<>>
      /\ HasValueField(filtered_df[1]) )
    => outcome.kind = "insufficient"

\* The regions the load can assign: the lookup's range and the fill value.
KnownRegions == {REGION_MAPPING[p] : p \in DOMAIN REGION_MAPPING} \cup {OTHER_REGION}

\* C3 as stated: a table without a region column loads into a dataset whose
\* every row has a region of the lookup's range or the fill value.
C3_RegionAlwaysAssigned ==
    (pc # "start" /\ "region" \notin raw.cols)
    => /\ df # None
       /\ "region" \in df[1].cols
       /\ Len(df[1].rows) = Len(raw.rows)
       /\ \A r \in Range(df[1].rows) :
             ~isna(r["region"]) /\ r["region"][1] \in KnownRegions

\* A row passes a selection: a member of every non-empty selection.
Passes(r, s) ==
    /\ Truthy(s.years) => isin(r["year"], s.years[1])
    /\ Truthy(s.regions) => isin(r["region"], s.regions[1])
    /\ Truthy(s.products) => isin(r["product_name"], s.products[1])

\* C4: the filtered view is the rows of the dataset that pass the three
\* membership tests, whatever the order the three filters run in, and
\* filtering the view again with the same selection returns it unchanged.
C4_FilterIsConjunction ==
    pc = "filtered" =>
        LET d == df[1]
            v == filtered_df[1]
            Y(x) == FilterYears(x, sel.years)
            R(x) == FilterRegions(x, sel.regions)
            P(x) == FilterProducts(x, sel.products)
        IN  /\ v = BoolIndex(d, [r \in Range(d.rows) |-> Passes(r, sel)])
            /\ v = P(R(Y(d)))
            /\ v = R(P(Y(d)))
            /\ v = P(Y(R(d)))
            /\ v = Y(P(R(d)))
            /\ v = R(Y(P(d)))
            /\ v = Y(R(P(d)))
            /\ sidebar_filters(v, sel) = v

\* All three selections restrict, and the view kept some rows and dropped some.
C4_Witness ==
    /\ pc = "filtered"
    /\ Truthy(sel.years) /\ Truthy(sel.regions) /\ Truthy(sel.products)
    /\ filtered_df[1].rows # <<>>
    /\ Len(filtered_df[1].rows) < Len(df[1].rows)
    /\ Len(filtered_df[1].rows) < Len(FilterYears(df[1], sel.years).rows)
    /\ Len(filtered_df[1].rows) < Len(FilterProducts(df[1], sel.products).rows)

\* The sum of f over the finite set S.
RECURSIVE SumOver(_, _)
SumOver(S, f) ==
    IF S = {} THEN 0
    ELSE LET x == CHOOSE x \in S : TRUE
         IN  f[x] + SumOver(S \ {x}, f)

\* The sum of column c over the rows of d whose index is in I and whose
\* cell is not NaN.
SumAt(d, I, c) ==
    SumOver({i \in I : ~isna(d.rows[i][c])}, [i \in I |-> d.rows[i][c][1]])

\* The rows of d, by index, with year y and quarter q.
QuarterRows(d, y, q) ==
    {i \in 1..Len(d.rows) :
        d.rows[i]["year"] = Some(y) /\ d.rows[i]["quarter"] = Some(q)}

\* C5: on a view with a year and a value field the quarterly comparison draws
\* one cluster per distinct year, each of exactly four values, 4 x (number of
\* years) in all; the value of a (year, quarter) without rows is 0 and that
\* of one with rows is the sum of the value field over them.
C5_QuarterlyGrid ==
    (pc = "filtered" /\ chart = "quarterly") =>
        LET v == filtered_df[1]
            years == IF "year" \in v.cols THEN UniqueValues(v, "year") ELSE {}
        IN  /\ (years # {} /\ "quarter" \in v.cols /\ HasValueField(v))
                  => outcome.kind = "figure"
            /\ outcome.kind = "figure" =>
                  /\ Range(outcome.labels) = years
                  /\ Len(outcome.labels) = Cardinality(years)
                  /\ Len(outcome.grid) = Cardinality(years)
                  /\ \A i \in DOMAIN outcome.grid :
                        /\ DOMAIN outcome.grid[i] = 1..4
                        /\ \A q \in 1..4 :
                              outcome.grid[i][q] =
                                 IF QuarterRows(v, outcome.labels[i], q) = {} THEN 0
                                 ELSE SumAt(v, QuarterRows(v, outcome.labels[i], q),
                                            outcome.value_col)

\* The quarterly comparison drew two years, with a quarter that has rows and
\* a quarter that has none.
C5_Witness ==
    /\ pc = "filtered" /\ chart = "quarterly" /\ outcome.kind = "figure"
    /\ Len(outcome.grid) = 2
    /\ \E i \in DOMAIN outcome.grid, q1, q2 \in 1..4 :
          /\ outcome.grid[i][q1] > 0
          /\ QuarterRows(filtered_df[1], outcome.labels[i], q2) = {}
          /\ outcome.grid[i][q2] = 0

\* C6 as stated: whatever optional columns the table lacks, load_data returns
\* a dataset (every table of the model is readable).
C6_LoadNeverFailsOnMissingColumns ==
    pc # "start" => (df # None /\ pc = "loaded")

\* C7 as stated: with neither _quantity nor _amount in the dataset, a chart
\* that is called returns the insufficient-data outcome.
C7_NoValueFieldIsInsufficient ==
    ( /\ pc = "filtered"
      /\ chart # "none"
      /\ ~HasValueField(filtered_df[1]) )
    => outcome.kind = "insufficient"

\* C8: after the load, whatever filters and charts have run and however
\* often the script has been rerun, the base dataset is the one load_data
\* made of the source table: same columns, same rows, same cells.
C8_BaseNeverMutated ==
    pc \in {"loaded", "filtered"} => df = load_data(raw)

\* A filter that dropped rows and a chart have both run on the dataset.
C8_Witness ==
    /\ pc = "filtered"
    /\ chart = "monthly" /\ outcome.kind = "figure"
    /\ Len(filtered_df[1].rows) < Len(df[1].rows)

VolumeCharts == {"regional", "top_products", "rose"}

TemporalCharts == {"monthly", "quarterly"}

\* The value field the spec gives a chart on view v.
PreferredField(c, v) ==
    IF c \in VolumeCharts
    THEN (IF "_quantity" \in v.cols THEN "_quantity" ELSE "_amount")
    ELSE (IF "_amount" \in v.cols THEN "_amount" ELSE "_quantity")

\* The rows of v, by index, that a drawn group stands for.
GroupRows(v, c, label) ==
    {i \in 1..Len(v.rows) :
        IF c = "monthly"
        THEN ~isna(v.rows[i]["_primary_date"])
             /\ MonthNo(v.rows[i]["_primary_date"]) = label
        ELSE v.rows[i][outcome.group_col] = Some(label)}

\* C9: a chart that gets as far as aggregating reads quantity when the view
\* has it and amount otherwise if it is the regional, top-product or rose
\* chart, and amount when the view has it and quantity otherwise if it is
\* the trend or the quarterly chart; the values it draws are sums of that
\* field.
C9_ValueFieldPreference ==
    (pc = "filtered" /\ outcome.kind \in {"figure", "raise"}) =>
        LET v == filtered_df[1]
            f == PreferredField(chart, v)
        IN  /\ outcome.value_col = f
            /\ outcome.kind = "figure" =>
                  /\ chart # "quarterly" =>
                        \A i \in DOMAIN outcome.labels :
                            outcome.values[i] =
                               SumAt(v, GroupRows(v, chart, outcome.labels[i]), f)
                  /\ chart = "quarterly" =>
                        \A i \in DOMAIN outcome.labels, q \in 1..4 :
                            outcome.grid[i][q] =
                               SumAt(v, QuarterRows(v, outcome.labels[i], q), f)

\* The view has both fields and the trend chart drew sums of the amount
\* that differ from the sums of the quantity.
C9_Witness ==
    /\ pc = "filtered" /\ chart = "monthly" /\ outcome.kind = "figure"
    /\ {"_quantity", "_amount"} \subseteq filtered_df[1].cols
    /\ outcome.value_col = "_amount"
    /\ \E i \in DOMAIN outcome.labels :
          outcome.values[i] #
             SumAt(filtered_df[1],
                   GroupRows(filtered_df[1], chart, outcome.labels[i]), "_quantity")

\* The date column the priority order gives for a set of columns.
PriorityDate(cols) ==
    IF "payment_date" \in cols THEN Some("payment_date")
    ELSE IF "order_date" \in cols THEN Some("order_date")
    ELSE IF "create_time" \in cols THEN Some("create_time")
    ELSE IF "created_at" \in cols THEN Some("created_at")
    ELSE IF "date" \in cols THEN Some("date")
    ELSE None

DateFields == {"_primary_date", "year", "month", "quarter"}

\* C10: the loaded dataset has the date fields exactly when the table has a
\* date column; the primary date of every row is then the parsed value of
\* the first such column in the priority order, chosen for the whole table
\* by the columns alone, and absent where that value does not parse; year,
\* month and quarter are those of the primary date and are absent exactly
\* where it is.
C10_PrimaryDate ==
    pc = "loaded" =>
        LET d == df[1]
            p == PriorityDate(raw.cols)
        IN  /\ p = None => DateFields \cap d.cols = {}
            /\ p # None =>
                  /\ DateFields \subseteq d.cols
                  /\ Len(d.rows) = Len(raw.rows)
                  /\ \A i \in 1..Len(d.rows) :
                        LET r == d.rows[i]
                            t == to_datetime(raw.rows[i][p[1]])
                        IN  /\ r["_primary_date"] = t
                            /\ isna(r["year"]) <=> isna(t)
                            /\ isna(r["month"]) <=> isna(t)
                            /\ isna(r["quarter"]) <=> isna(t)
                            /\ ~isna(t) =>
                                  /\ r["year"] = Some(t[1].y)
                                  /\ r["month"] = Some(t[1].m)
                                  /\ r["quarter"][1] \in 1..4
                                  /\ t[1].m \in (3 * r["quarter"][1] - 2)..(3 * r["quarter"][1])

\* The first date column has a value that does not parse in a row whose
\* next date column does, and that row is left without a year while another
\* row has one.
C10_Witness ==
    /\ pc = "loaded"
    /\ {"payment_date", "order_date"} \subseteq raw.cols
    /\ \E i, j \in 1..Len(raw.rows) :
          /\ ~isna(raw.rows[i]["payment_date"])
          /\ isna(to_datetime(raw.rows[i]["payment_date"]))
          /\ ~isna(to_datetime(raw.rows[i]["order_date"]))
          /\ isna(df[1].rows[i]["_primary_date"])
          /\ isna(df[1].rows[i]["year"])
          /\ ~isna(df[1].rows[j]["year"])

\* The amount column the priority order gives for a set of columns.
PriorityAmount(cols) ==
    IF "paid_amount" \in cols THEN Some("paid_amount")
    ELSE IF "product_amount" \in cols THEN Some("product_amount")
    ELSE IF "amount" \in cols THEN Some("amount")
    ELSE IF "total_amount" \in cols THEN Some("total_amount")
    ELSE None

\* C11: the _amount of every row of the loaded dataset is the row's cell in
\* the first of paid_amount, product_amount, amount, total_amount that the
\* table has; with none of them and both quantity and unit_price it is
\* quantity x unit_price (missing where either is); otherwise the dataset
\* has no _amount.  _quantity is the row's quantity when the table has the
\* column, and the dataset has no _quantity otherwise.
C11_AmountAndQuantity ==
    pc = "loaded" =>
        LET d == df[1]
            a == PriorityAmount(raw.cols)
            both == {"quantity", "unit_price"} \subseteq raw.cols
        IN  /\ Len(d.rows) = Len(raw.rows)
            /\ "_amount" \in d.cols <=> (a # None \/ both)
            /\ a # None =>
                  \A i \in 1..Len(d.rows) : d.rows[i]["_amount"] = raw.rows[i][a[1]]
            /\ (a = None /\ both) =>
                  \A i \in 1..Len(d.rows) :
                      LET q == raw.rows[i]["quantity"]
                          u == raw.rows[i]["unit_price"]
                      IN  d.rows[i]["_amount"] =
                             IF q = NaN \/ u = NaN THEN NaN ELSE Some(q[1] * u[1])
            /\ "_quantity" \in d.cols <=> "quantity" \in raw.cols
            /\ "quantity" \in raw.cols =>
                  \A i \in 1..Len(d.rows) :
                      d.rows[i]["_quantity"] = raw.rows[i]["quantity"]

\* The table has quantity, unit_price and the last two amount columns but
\* not the first two, and the loaded amount is the cell of the earlier of
\* the two, which differs from the other and from the product in some row.
C11_Witness ==
    /\ pc = "loaded"
    /\ {"quantity", "unit_price", "amount", "total_amount"} \subseteq raw.cols
    /\ {"paid_amount", "product_amount"} \cap raw.cols = {}
    /\ \E i \in 1..Len(raw.rows) :
          /\ df[1].rows[i]["_amount"] = raw.rows[i]["amount"]
          /\ df[1].rows[i]["_amount"] # raw.rows[i]["total_amount"]
          /\ df[1].rows[i]["_amount"] #
                Mul(raw.rows[i]["quantity"], raw.rows[i]["unit_price"])
          /\ df[1].rows[i]["_quantity"] = raw.rows[i]["quantity"]

\* The calendar months, as 12 * year + month, of the rows of v that have a
\* primary date.
BucketMonths(v) ==
    IF "_primary_date" \notin v.cols THEN {}
    ELSE {12 * r["_primary_date"][1].y + r["_primary_date"][1].m :
             r \in {x \in Range(v.rows) : ~isna(x["_primary_date"])}}

\* The rows of v, by index, of the calendar month k.
MonthRows(v, k) ==
    {i \in 1..Len(v.rows) :
        /\ ~isna(v.rows[i]["_primary_date"])
        /\ 12 * v.rows[i]["_primary_date"][1].y
              + v.rows[i]["_primary_date"][1].m = k}

\* C12: on a view with a value field, n being the number of calendar months
\* with a dated row, the trend chart returns the insufficient-data outcome
\* when n < 2; draws straight segments without smoothing when 2 <= n <= 3;
\* draws a smoothed curve of degree min(3, n - 1) when n > 3; and whenever
\* it draws, it marks exactly the n months, in calendar order, each with
\* the sum of the value field over the rows of that month.
C12_MonthlyTrend ==
    (pc = "filtered" /\ chart = "monthly" /\ HasValueField(filtered_df[1])) =>
        LET v == filtered_df[1]
            n == Cardinality(BucketMonths(v))
        IN  /\ n < 2 => outcome.kind = "insufficient"
            /\ n >= 2 =>
                  /\ outcome.kind = "figure"
                  /\ Len(outcome.labels) = n
                  /\ Range(outcome.labels) = BucketMonths(v)
                  /\ \A i, j \in DOMAIN outcome.labels :
                        i < j => outcome.labels[i] < outcome.labels[j]
                  /\ Len(outcome.values) = n
                  /\ \A i \in DOMAIN outcome.labels :
                        outcome.values[i] =
                           SumAt(v, MonthRows(v, outcome.labels[i]), outcome.value_col)
            /\ (n >= 2 /\ n <= 3) => (~outcome.smooth /\ outcome.degree = 1)
            /\ n > 3 =>
                  /\ outcome.smooth
                  /\ outcome.degree = IF n - 1 < 3 THEN n - 1 ELSE 3

\* The trend chart drew a smoothed curve over four months or more, one of
\* them the sum of two rows, out of calendar order in the view.
C12_Witness ==
    /\ pc = "filtered" /\ chart = "monthly" /\ outcome.kind = "figure"
    /\ outcome.smooth /\ outcome.degree = 3
    /\ Len(outcome.labels) > 3
    /\ MonthNo(filtered_df[1].rows[1]["_primary_date"]) > outcome.labels[1]

\* The column the chart drawn last ranks by: the product, else the
\* category, in the top-product chart; the category, else the region, in
\* the rose chart.
RankColumn(v) ==
    IF chart = "top_products"
    THEN (IF "product_name" \in v.cols THEN "product_name" ELSE "category")
    ELSE (IF "category" \in v.cols THEN "category" ELSE "region")

\* The groups of the view: the values of that column that are present.
RankedGroups(v) ==
    {r[RankColumn(v)][1] :
        r \in {x \in Range(v.rows) : ~isna(x[RankColumn(v)])}}

\* The most groups the chart drawn last shows.
RankLimit == IF chart = "top_products" THEN outcome.n ELSE 12

\* C13: on a view with a value field and a column to rank by, the
\* top-product chart called with N shows min(N, number of distinct products)
\* groups and the rose chart min(12, number of distinct categories) groups
\* (the insufficient-data outcome when that is 0); the groups shown are
\* distinct groups of the view, each with the sum of the value field over
\* its rows, in descending order of that sum, and no group left out has a
\* larger sum than a group shown.
C13_TruncationKeepsLargest ==
    ( /\ pc = "filtered"
      /\ chart \in {"top_products", "rose"}
      /\ HasValueField(filtered_df[1])
      /\ RankColumn(filtered_df[1]) \in filtered_df[1].cols ) =>
        LET v == filtered_df[1]
            groups == RankedGroups(v)
            shown == Range(outcome.labels)
            total(g) == SumAt(v, GroupRows(v, chart, g), outcome.value_col)
        IN  IF chart = "rose" /\ groups = {}
            THEN outcome.kind = "insufficient"
            ELSE /\ outcome.kind = "figure"
                 /\ outcome.group_col = RankColumn(v)
                 /\ Len(outcome.labels) =
                       (IF RankLimit < Cardinality(groups) THEN RankLimit
                        ELSE Cardinality(groups))
                 /\ Len(outcome.values) = Len(outcome.labels)
                 /\ shown \subseteq groups
                 /\ Cardinality(shown) = Len(outcome.labels)
                 /\ \A k \in DOMAIN outcome.labels :
                       outcome.values[k] = total(outcome.labels[k])
                 /\ \A k, l \in DOMAIN outcome.values :
                       k < l => outcome.values[k] >= outcome.values[l]
                 /\ \A k \in DOMAIN outcome.values :
                       \A g \in groups \ shown : outcome.values[k] >= total(g)

\* The rose chart drew twelve of more than twelve categories of a view
\* whose rows are not in descending order, one of them a sum of two rows.
C13_Witness ==
    /\ pc = "filtered" /\ chart = "rose" /\ outcome.kind = "figure"
    /\ Len(outcome.labels) = 12
    /\ Cardinality(RankedGroups(filtered_df[1])) > 12
    /\ filtered_df[1].rows[1]["category"] = Some("C01")
    /\ "C01" \notin Range(outcome.labels)
    /\ outcome.labels[1] = "C02"
    /\ Cardinality(GroupRows(filtered_df[1], "rose", "C02")) = 2

====
